---- MODULE Spec2Model ----
(***************************************************************************)
(* Model of pyQSC's VMEC output path (qsc/to_vmec.py: to_Fourier, to_vmec) *)
(* and of the surface functions of qsc/plot.py (rSurf, zSurf, Bf).         *)
(*                                                                         *)
(* Arithmetic.  The code works in IEEE doubles; the model works in exact   *)
(* arithmetic over the field Q(sqrt 3): a number is <<a, b, d>>, meaning   *)
(* (a + b*sqrt(3)) / d in lowest terms with d > 0.  Angles are kept as     *)
(* whole multiples of a twelfth of a turn (30 degrees), whose sine and     *)
(* cosine lie in that field, so the grids of the model have 1, 2, 3 or 4   *)
(* points per direction.  Rounding error is not modelled.                  *)
(***************************************************************************)
EXTENDS Integers, Sequences, FiniteSets, TLC

------------------------------------------------------------------------------
(* Exact numbers (a + b*sqrt 3)/d *)

Abs(x) == IF x < 0 THEN -x ELSE x

RECURSIVE GCD(_, _)
GCD(a, b) == IF b = 0 THEN a ELSE GCD(b, a % b)

\* (a + b*sqrt 3)/d in lowest terms, d > 0
Q(a, b, d) ==
    LET g == GCD(GCD(Abs(a), Abs(b)), Abs(d))
        s == IF d < 0 THEN -1 ELSE 1
    IN  <<(s * a) \div g, (s * b) \div g, (s * d) \div g>>

QInt(n) == <<n, 0, 1>>
Zero == QInt(0)
QAdd(x, y) == Q(x[1] * y[3] + y[1] * x[3], x[2] * y[3] + y[2] * x[3], x[3] * y[3])
QNeg(x) == <<-x[1], -x[2], x[3]>>
QSub(x, y) == QAdd(x, QNeg(y))
QMul(x, y) == Q(x[1] * y[1] + 3 * x[2] * y[2], x[1] * y[2] + x[2] * y[1], x[3] * y[3])
QDivInt(x, n) == Q(x[1], x[2], x[3] * n)
QFrac(p, q) == Q(p, 0, q)

\* np.cos and np.sin at k twelfths of a turn
Cos12(k) ==
    LET r == k % 12
    IN  CASE r = 0 -> <<1, 0, 1>>
          [] r \in {1, 11} -> <<0, 1, 2>>
          [] r \in {2, 10} -> <<1, 0, 2>>
          [] r \in {3, 9} -> <<0, 0, 1>>
          [] r \in {4, 8} -> <<-1, 0, 2>>
          [] r \in {5, 7} -> <<0, -1, 2>>
          [] OTHER -> <<-1, 0, 1>>

Sin12(k) == Cos12(k - 3)

------------------------------------------------------------------------------
(* Angles, kept as fractions <<p, q>> of a full turn (2*pi) *)

\* np.linspace(0, 2*pi, ntheta, endpoint=False)[j]
theta(ntheta_, j) == <<j, ntheta_>>

\* np.linspace(0, 2*pi/nfp, nphi_conversion, endpoint=False)[k]
phi_conversion(nfp_, nphi, k) == <<k, nfp_ * nphi>>

\* angle = m * theta[j_theta] - n * nfp * phi_conversion[j_phi]
angle(m, n, nfp_, th, ph) ==
    <<m * th[1] * ph[2] - n * nfp_ * ph[1] * th[2], th[2] * ph[2]>>

\* an angle in twelfths of a turn
Twelfths(a) == (12 * a[1]) \div a[2]

cosangle(a) == Cos12(Twelfths(a))
sinangle(a) == Sin12(Twelfths(a))
Trig(kind, a) == IF kind = "cos" THEN cosangle(a) ELSE sinangle(a)

------------------------------------------------------------------------------
(* to_Fourier *)

\* nphi_conversion = np.array(R_2D).shape[1]
nphi_conversion(G) == Cardinality(DOMAIN G[0])

\* the shape (2*ntor+1, mpol+1) of RBC, RBS, ZBC, ZBS
Shape(mpol_, ntor_) == (0 .. 2 * ntor_) \X (0 .. mpol_)

\* numpy values: a two-dimensional array is [dim |-> 2, val |-> its entries by
\* position], the scalar 0 is [dim |-> 0, val |-> 0]
Array(f) == [dim |-> 2, val |-> f]
Scalar0 == [dim |-> 0, val |-> Zero]

\* np.zeros((2*ntor+1, mpol+1))
Zeros(mpol_, ntor_) == Array([ix \in Shape(mpol_, ntor_) |-> Zero])

\* (mutant) the m = 0 row starts at n = 0
nmin_FromZero(m, ntor_) == IF m = 0 THEN 0 ELSE -ntor_

\* (mutant) every row starts at n = -ntor
nmin_All(m, ntor_) == -ntor_

\* nmin = -ntor; if m==0: nmin = 1
nmin(m, ntor_) == IF m = 0 THEN 1 ELSE -ntor_

\* the modes (n, m) the loops visit: m in range(mpol+1), n in range(nmin, ntor+1)
LoopModes(mpol_, ntor_) ==
    {nm \in (-ntor_ .. ntor_) \X (0 .. mpol_) : nm[1] >= nmin(nm[2], ntor_)}

\* the positions [n+ntor, m] the loops write
LoopWrites(mpol_, ntor_) == {<<nm[1] + ntor_, nm[2]>> : nm \in LoopModes(mpol_, ntor_)}

\* (mutant) the normalisation without the 2
factor_Unscaled(ntheta_, nphi) == QFrac(1, ntheta_ * nphi)

\* factor = 2 / (ntheta * nphi_conversion)
factor(ntheta_, nphi) == QFrac(2, ntheta_ * nphi)

\* (mutant) no Nyquist halving
factor2_NoHalving(m, n, ntheta_, nphi) == factor(ntheta_, nphi)

\* factor2: factor, halved when ntheta is even and m == ntheta/2, and halved
\* when nphi_conversion is even and abs(n) == nphi_conversion/2
factor2(m, n, ntheta_, nphi) ==
    LET f1 == IF ntheta_ % 2 = 0 /\ 2 * m = ntheta_
              THEN QDivInt(factor(ntheta_, nphi), 2) ELSE factor(ntheta_, nphi)
    IN  IF nphi % 2 = 0 /\ 2 * Abs(n) = nphi THEN QDivInt(f1, 2) ELSE f1

\* one pass of the loop body for one array entry: G[j_theta, j_phi] * trig * factor2
Term(G, kind, m, n, nfp_, ntheta_, j_theta, j_phi) ==
    LET nphi == nphi_conversion(G)
        a == angle(m, n, nfp_, theta(ntheta_, j_theta), phi_conversion(nfp_, nphi, j_phi))
    IN  QMul(QMul(G[j_theta][j_phi], Trig(kind, a)), factor2(m, n, ntheta_, nphi))

\* the entry of mode (n, m) after the first k grid points, in loop order
\* (j_phi outer, j_theta inner)
RECURSIVE LoopSum(_, _, _, _, _, _, _)
LoopSum(G, kind, m, n, nfp_, ntheta_, k) ==
    IF k = 0 THEN Zero
    ELSE QAdd(LoopSum(G, kind, m, n, nfp_, ntheta_, k - 1),
              Term(G, kind, m, n, nfp_, ntheta_, (k - 1) % ntheta_, (k - 1) \div ntheta_))

\* an array after the four nested loops
Accumulated(G, kind, nfp_, ntheta_, mpol_, ntor_) ==
    Array([ix \in Shape(mpol_, ntor_) |->
        IF ix \in LoopWrites(mpol_, ntor_)
        THEN LoopSum(G, kind, ix[2], ix[1] - ntor_, nfp_, ntheta_,
                     ntheta_ * nphi_conversion(G))
        ELSE Zero])

\* np.sum(G)
RECURSIVE SumGrid(_, _, _)
SumGrid(G, ntheta_, k) ==
    IF k = 0 THEN Zero
    ELSE QAdd(SumGrid(G, ntheta_, k - 1), G[(k - 1) % ntheta_][(k - 1) \div ntheta_])

\* np.sum(G) / (ntheta * nphi_conversion)
Mean(G, ntheta_) ==
    QDivInt(SumGrid(G, ntheta_, ntheta_ * nphi_conversion(G)), ntheta_ * nphi_conversion(G))

\* A[ntor, 0] = np.sum(G) / (ntheta * nphi_conversion)
WithMean(A, G, ntheta_, ntor_) == [A EXCEPT !.val[<<ntor_, 0>>] = Mean(G, ntheta_)]

\* (mutant) the raw sums are returned whatever lasym is
Symmetrized_Raw(A, lasym_) == A

\* if not lasym: RBS = 0; ZBC = 0   (the scalar 0 replaces the array)
Symmetrized(A, lasym_) == IF lasym_ THEN A ELSE Scalar0

\* the value to_Fourier returns
to_Fourier(R, Z, nfp_, ntheta_, mpol_, ntor_, lasym_) ==
    [RBC |-> WithMean(Accumulated(R, "cos", nfp_, ntheta_, mpol_, ntor_), R, ntheta_, ntor_),
     RBS |-> Symmetrized(Accumulated(R, "sin", nfp_, ntheta_, mpol_, ntor_), lasym_),
     ZBC |-> Symmetrized(WithMean(Accumulated(Z, "cos", nfp_, ntheta_, mpol_, ntor_),
                                  Z, ntheta_, ntor_), lasym_),
     ZBS |-> Accumulated(Z, "sin", nfp_, ntheta_, mpol_, ntor_)]

\* entry of mode (n, m): A[n+ntor, m]; the scalar 0 reads as 0 at every mode
At(A, n, m, ntor_) == IF A.dim = 0 THEN A.val ELSE A.val[<<n + ntor_, m>>]

\* np.shape(A) == (2*ntor+1, mpol+1)
HasShape(A, mpol_, ntor_) == A.dim = 2 /\ DOMAIN A.val = Shape(mpol_, ntor_)

------------------------------------------------------------------------------
(* Bounds of the model *)

\* grid sizes whose angles are whole twelfths of a turn
GridSizes == {1, 2, 3, 4}
\* magnitude of a nonzero sample, amplitude or scalar input
MaxVal == 1
\* largest mpol and ntor handed to to_Fourier directly
MaxMode == 2
\* largest number of field periods
MaxNfp == 2

Nfps == {1, MaxNfp}

\* a grid that is zero except for the value v at cell (j0, k0).  to_Fourier
\* is linear in each grid, and these grids span all grids.
ProbeGrid(nth, nph, j0, k0, v) ==
    [j \in 0 .. nth - 1 |-> [k \in 0 .. nph - 1 |->
        IF j = j0 /\ k = k0 THEN QInt(v) ELSE Zero]]

------------------------------------------------------------------------------
(* State *)

VARIABLES
    pc,                             \* position in the routine being run
    ntheta, nfp, mpol, ntor, lasym, \* arguments of to_Fourier
    R_2D, Z_2D,                     \* the sampled surface
    RBC, RBS, ZBC, ZBS,             \* the four spectra
    amp,                            \* the amplitudes a synthetic surface was built from
    call, file, self,               \* to_vmec: its arguments, the file written, the object
    qsc, at, surf                   \* plot: the configuration, a point, the values there

vars == <<pc, ntheta, nfp, mpol, ntor, lasym, R_2D, Z_2D, RBC, RBS, ZBC, ZBS,
          amp, call, file, self, qsc, at, surf>>
args == <<ntheta, nfp, mpol, ntor, lasym, R_2D, Z_2D>>
vmecvars == <<call, file, self>>
plotvars == <<qsc, at, surf>>
Unused == "unused"

nphi_ == nphi_conversion(R_2D)

------------------------------------------------------------------------------
(* to_Fourier on an arbitrary grid, run in its three stages *)

\* after lines 26-33: arguments bound, the four arrays zeroed
InitFourier ==
    /\ pc = "start"
    /\ ntheta \in GridSizes
    /\ nfp \in Nfps
    /\ mpol \in 0 .. MaxMode
    /\ ntor \in 0 .. MaxMode
    /\ lasym \in BOOLEAN
    /\ \E nph \in GridSizes : \E j0 \in 0 .. ntheta - 1 : \E k0 \in 0 .. nph - 1 :
       \E vR \in {0, MaxVal} : \E vZ \in {0, -MaxVal} :
          /\ R_2D = ProbeGrid(ntheta, nph, j0, k0, vR)
          /\ Z_2D = ProbeGrid(ntheta, nph, j0, k0, vZ)
    /\ RBC = Zeros(mpol, ntor)
    /\ RBS = Zeros(mpol, ntor)
    /\ ZBC = Zeros(mpol, ntor)
    /\ ZBS = Zeros(mpol, ntor)
    /\ amp = Unused
    /\ call = Unused /\ file = Unused /\ self = Unused
    /\ qsc = Unused /\ at = Unused /\ surf = Unused

\* lines 34-50: the accumulation loops
Accumulate ==
    /\ pc = "start"
    /\ RBC' = Accumulated(R_2D, "cos", nfp, ntheta, mpol, ntor)
    /\ RBS' = Accumulated(R_2D, "sin", nfp, ntheta, mpol, ntor)
    /\ ZBC' = Accumulated(Z_2D, "cos", nfp, ntheta, mpol, ntor)
    /\ ZBS' = Accumulated(Z_2D, "sin", nfp, ntheta, mpol, ntor)
    /\ pc' = "summed"
    /\ UNCHANGED <<args, amp, vmecvars, plotvars>>

\* lines 51-52: the mean modes
SetMean ==
    /\ pc = "summed"
    /\ RBC' = WithMean(RBC, R_2D, ntheta, ntor)
    /\ ZBC' = WithMean(ZBC, Z_2D, ntheta, ntor)
    /\ pc' = "mean"
    /\ UNCHANGED <<args, RBS, ZBS, amp, vmecvars, plotvars>>

\* lines 54-58: the symmetry policy and the return
Return ==
    /\ pc = "mean"
    /\ RBS' = Symmetrized(RBS, lasym)
    /\ ZBC' = Symmetrized(ZBC, lasym)
    /\ pc' = "done"
    /\ UNCHANGED <<args, RBC, ZBS, amp, vmecvars, plotvars>>

NextFourier == Accumulate \/ SetMean \/ Return

SpecFourier == InitFourier /\ [][NextFourier]_vars

------------------------------------------------------------------------------
(* Claims about to_Fourier on an arbitrary grid *)

Cells == (0 .. ntheta - 1) \X (0 .. nphi_ - 1)
AllModes == (-ntor .. ntor) \X (0 .. mpol)

\* sum of f over a finite set of integers-indexed items
RECURSIVE QSum(_, _)
QSum(f, S) ==
    IF S = {} THEN Zero
    ELSE LET x == CHOOSE y \in S : TRUE IN QAdd(f[x], QSum(f, S \ {x}))

\* the inverse transform at grid point (j, k): the sum over every mode of
\* C[n+ntor,m]*cos(m*theta_j - n*nfp*phi_k) + S[n+ntor,m]*sin(m*theta_j - n*nfp*phi_k)
Inverse(C, S, j, k) ==
    QSum([nm \in AllModes |->
            LET a == angle(nm[2], nm[1], nfp, theta(ntheta, j), phi_conversion(nfp, nphi_, k))
            IN  QAdd(QMul(At(C, nm[1], nm[2], ntor), cosangle(a)),
                     QMul(At(S, nm[1], nm[2], ntor), sinangle(a)))],
         AllModes)

\* C2: with lasym true, mpol = floor(ntheta/2) and ntor = floor(nphi/2), the
\* inverse sum of the returned RBC and RBS over all modes equals R_2D at every
\* grid point (the Nyquist halvings make the transform pair an identity).
C2_Reconstruction ==
    (pc = "done" /\ lasym /\ mpol = ntheta \div 2 /\ ntor = nphi_ \div 2)
        => \A c \in Cells : Inverse(RBC, RBS, c[1], c[2]) = R_2D[c[1]][c[2]]

\* a nonzero grid on an even-by-even grid has been transformed and is reconstructed
C2_Witness ==
    /\ pc = "done" /\ lasym /\ ntheta = 4 /\ nphi_ = 2 /\ mpol = 2 /\ ntor = 1
    /\ R_2D[1][1] # Zero
    /\ RBC.val[<<2, 2>>] # Zero

\* C3: with lasym false the returned RBS and ZBC are exactly zero (the scalar 0,
\* which is zero at every mode), whatever the raw sums were, and RBC and ZBS are
\* the values the call with lasym true returns.
C3_Symmetry ==
    (pc = "done" /\ ~lasym) =>
        /\ \A nm \in AllModes : At(RBS, nm[1], nm[2], ntor) = Zero
                             /\ At(ZBC, nm[1], nm[2], ntor) = Zero
        /\ RBC = to_Fourier(R_2D, Z_2D, nfp, ntheta, mpol, ntor, TRUE).RBC
        /\ ZBS = to_Fourier(R_2D, Z_2D, nfp, ntheta, mpol, ntor, TRUE).ZBS

\* a symmetric call has returned although its raw sine-R and cosine-Z sums were nonzero
C3_Witness ==
    /\ pc = "done" /\ ~lasym
    /\ \E nm \in AllModes :
          /\ Accumulated(R_2D, "sin", nfp, ntheta, mpol, ntor).val[<<nm[1] + ntor, nm[2]>>] # Zero
          /\ Accumulated(Z_2D, "cos", nfp, ntheta, mpol, ntor).val[<<nm[1] + ntor, nm[2]>>] # Zero

\* C4: the accumulation loop never adds to RBC[ntor,0], and the returned
\* RBC[ntor,0] times the number of samples is the sum of the R samples, for
\* every mpol, ntor and lasym.
C4_DCComponent ==
    /\ pc = "summed" => RBC.val[<<ntor, 0>>] = Zero
    /\ pc \in {"mean", "done"} =>
          QMul(RBC.val[<<ntor, 0>>], QInt(ntheta * nphi_))
             = QSum([c \in Cells |-> R_2D[c[1]][c[2]]], Cells)

\* a call with mpol, ntor > 0 has returned a nonzero mean
C4_Witness ==
    pc = "done" /\ mpol > 0 /\ ntor > 0 /\ RBC.val[<<ntor, 0>>] # Zero

\* C9 as stated: all four returned mappings have shape (2*ntor+1) x (mpol+1),
\* the loop writes inside it, and the entries at (m=0, n<0) and the sine
\* entries at (m=0, n=0) are zero
C9_AsStated ==
    /\ LoopWrites(mpol, ntor) \subseteq Shape(mpol, ntor)
    /\ pc = "done" =>
          /\ HasShape(RBC, mpol, ntor) /\ HasShape(RBS, mpol, ntor)
          /\ HasShape(ZBC, mpol, ntor) /\ HasShape(ZBS, mpol, ntor)
          /\ \A n \in -ntor .. -1 : /\ At(RBC, n, 0, ntor) = Zero
                                    /\ At(RBS, n, 0, ntor) = Zero
                                    /\ At(ZBC, n, 0, ntor) = Zero
                                    /\ At(ZBS, n, 0, ntor) = Zero
          /\ At(RBS, 0, 0, ntor) = Zero /\ At(ZBS, 0, 0, ntor) = Zero

\* C9: RBC and ZBS, and RBS and ZBC when lasym is true, have shape
\* (2*ntor+1) x (mpol+1) (with lasym false RBS and ZBC are the scalar 0); the
\* loop visits n in [-ntor,ntor] for m >= 1 and n in [1,ntor] for m = 0 and
\* writes inside the shape; the entries at (m=0, n<0) and the sine entries at
\* (m=0, n=0) are exactly zero.
C9_Indexing ==
    /\ LoopWrites(mpol, ntor) \subseteq Shape(mpol, ntor)
    /\ LoopModes(mpol, ntor) =
          {nm \in AllModes : (nm[2] >= 1) \/ (nm[1] >= 1)}
    /\ pc = "done" =>
          /\ HasShape(RBC, mpol, ntor) /\ HasShape(ZBS, mpol, ntor)
          /\ lasym => (HasShape(RBS, mpol, ntor) /\ HasShape(ZBC, mpol, ntor))
          /\ ~lasym => (RBS.dim = 0 /\ ZBC.dim = 0)
          /\ \A n \in -ntor .. -1 : /\ At(RBC, n, 0, ntor) = Zero
                                    /\ At(RBS, n, 0, ntor) = Zero
                                    /\ At(ZBC, n, 0, ntor) = Zero
                                    /\ At(ZBS, n, 0, ntor) = Zero
          /\ At(RBS, 0, 0, ntor) = Zero /\ At(ZBS, 0, 0, ntor) = Zero

\* an asymmetric call with ntor > 0 has returned with nonzero m = 0 entries for n > 0
C9_Witness ==
    /\ pc = "done" /\ lasym /\ ntor > 0
    /\ At(RBS, 1, 0, ntor) # Zero /\ At(ZBC, 1, 0, ntor) # Zero

------------------------------------------------------------------------------
(* to_Fourier on a synthetic surface of known amplitudes *)

\* the modes a grid of ntheta x nphi points resolves, Nyquist modes included
Resolved(nth, nph, mpol_, ntor_) ==
    {nm \in (-ntor_ .. ntor_) \X (0 .. mpol_) : 2 * nm[2] <= nth /\ 2 * Abs(nm[1]) <= nph}

\* amplitudes that are v at mode s and zero at the other modes
OneMode(nth, nph, mpol_, ntor_, s, v) ==
    [nm \in Resolved(nth, nph, mpol_, ntor_) |-> IF nm = s THEN v ELSE 0]

\* the surface sum of A(m,n) * trig(m*theta_j - n*nfp*phi_k) on the grid
Sampled(A, kind, nfp_, nth, nph) ==
    [j \in 0 .. nth - 1 |-> [k \in 0 .. nph - 1 |->
        QSum([nm \in DOMAIN A |->
                QMul(QInt(A[nm]),
                     Trig(kind, angle(nm[2], nm[1], nfp_, theta(nth, j),
                                      phi_conversion(nfp_, nph, k))))],
             DOMAIN A)]]

InitRoundTrip ==
    /\ pc = "start"
    /\ ntheta \in GridSizes
    /\ nfp = MaxNfp
    /\ mpol \in 0 .. MaxMode
    /\ ntor \in 0 .. MaxMode
    /\ lasym \in BOOLEAN
    /\ \E nph \in GridSizes :
       \E sa \in Resolved(ntheta, nph, mpol, ntor) :
       \E sb \in Resolved(ntheta, nph, mpol, ntor) :
          \* sin(0) = 0: an amplitude b(0,0) would not be part of the surface
          /\ amp = [a |-> OneMode(ntheta, nph, mpol, ntor, sa, MaxVal),
                    b |-> OneMode(ntheta, nph, mpol, ntor, sb,
                                  IF sb = <<0, 0>> THEN 0 ELSE -MaxVal)]
          /\ R_2D = Sampled(amp.a, "cos", nfp, ntheta, nph)
          /\ Z_2D = Sampled(amp.b, "sin", nfp, ntheta, nph)
    /\ RBC = Zeros(mpol, ntor)
    /\ RBS = Zeros(mpol, ntor)
    /\ ZBC = Zeros(mpol, ntor)
    /\ ZBS = Zeros(mpol, ntor)
    /\ call = Unused /\ file = Unused /\ self = Unused
    /\ qsc = Unused /\ at = Unused /\ surf = Unused

SpecRoundTrip == InitRoundTrip /\ [][NextFourier]_vars

ResolvedModes == Resolved(ntheta, nphi_, mpol, ntor)

\* C1 as stated: every resolved mode, Nyquist modes included, comes back with
\* its amplitude
C1_AsStated ==
    pc = "done" =>
        \A nm \in ResolvedModes :
            /\ At(RBC, nm[1], nm[2], ntor) = QInt(amp.a[nm])
            /\ At(ZBS, nm[1], nm[2], ntor) = QInt(amp.b[nm])

\* strictly below the Nyquist modes, and n >= 0 when m = 0
BelowNyquist(nm) ==
    2 * nm[2] < ntheta /\ 2 * Abs(nm[1]) < nphi_ /\ (nm[2] >= 1 \/ nm[1] >= 0)
\* the modes whose cosine amplitude the grid determines
CosModes ==
    {nm \in ResolvedModes : \/ BelowNyquist(nm)
                            \/ (nm[2] = 0 /\ 2 * nm[1] = nphi_)
                            \/ (2 * nm[2] = ntheta /\ nm[1] = 0)}
\* the modes whose sine amplitude the grid determines
SinModes == {nm \in ResolvedModes : BelowNyquist(nm) /\ nm # <<0, 0>>}

\* C1: for a surface whose cosine amplitudes a sit on modes strictly below the
\* Nyquist modes with n >= 0 when m = 0 (or on the Nyquist modes (m=0,
\* n=nphi/2), (m=ntheta/2, n=0)), and whose sine amplitudes b sit on modes
\* strictly below the Nyquist modes with n >= 0 when m = 0, other than (0,0),
\* to_Fourier returns RBC[n+ntor,m] = a(m,n) and ZBS[n+ntor,m] = b(m,n) at
\* every resolved mode, for even and for odd grid sizes.
C1_RoundTrip ==
    (/\ pc = "done"
     /\ \A nm \in ResolvedModes : amp.a[nm] # 0 => nm \in CosModes
     /\ \A nm \in ResolvedModes : amp.b[nm] # 0 => nm \in SinModes)
        => \A nm \in ResolvedModes :
              /\ At(RBC, nm[1], nm[2], ntor) = QInt(amp.a[nm])
              /\ At(ZBS, nm[1], nm[2], ntor) = QInt(amp.b[nm])

\* a surface with a Nyquist cosine mode on an even grid and a sine mode below
\* Nyquist has come back with both amplitudes
C1_Witness ==
    /\ pc = "done" /\ ntheta = 4 /\ nphi_ = 3 /\ mpol = 2 /\ ntor = 1
    /\ amp.a[<<0, 2>>] # 0 /\ amp.b[<<-1, 1>>] # 0
    /\ At(RBC, 0, 2, ntor) = QInt(amp.a[<<0, 2>>])
    /\ At(ZBS, -1, 1, ntor) = QInt(amp.b[<<-1, 1>>])
------------------------------------------------------------------------------
(* to_vmec *)

\* mpol1d = 100, ntord = 100: maximum number of mode numbers VMEC can handle
mpol1d == 100
ntord == 100
\* the default of the argument ntorMax
ntorMaxDefault == 14

Min(x, y) == IF x <= y THEN x ELSE y

\* lines 73-77: mpol from params, or int(np.floor(min(ntheta / 2, mpol1d)))
ResolveMpol(params, ntheta_) ==
    IF "mpol" \notin DOMAIN params THEN Min(ntheta_ \div 2, mpol1d) ELSE params["mpol"]

\* lines 78-83: ntor from params, or int(min(self.nphi / 2 + 1, ntord))
ResolveNtor(params, nphi) ==
    IF "ntor" \notin DOMAIN params THEN Min(nphi \div 2 + 1, ntord) ELSE params["ntor"]

\* a dict holding the given keys of d
Dict(d, keys) == [k \in keys |-> d[k]]

\* the params dicts of the model: none, mpol, ntor or both given, and an mpol
\* above mpol1d
ParamChoices ==
    {Dict([mpol |-> c[1], ntor |-> c[2]], c[3]) :
        c \in {<<1, 1, {}>>, <<1, 1, {"mpol"}>>, <<1, 0, {"ntor"}>>, <<1, 1, {"ntor"}>>,
               <<1, 1, {"mpol", "ntor"}>>, <<mpol1d + 1, 0, {"mpol", "ntor"}>>}}

\* self.Frenet_to_cylindrical(r, ntheta): R_2D and Z_2D on the ntheta x self.nphi grid
Frenet_to_cylindrical == [R |-> call.R, Z |-> call.Z]

\* lines 157-163: the boundary lines written, one RBC/ZBS line for each mode with
\* RBC != 0 or ZBS != 0 and, if self.lasym, one RBS/ZBC line after it
BoundaryLines(C, S, ZC, ZS, mpol_, ntor_, lasym_) ==
    LET written == {nm \in (-ntor_ .. ntor_) \X (0 .. mpol_) :
                       \/ C.val[<<nm[1] + ntor_, nm[2]>>] # Zero
                       \/ ZS.val[<<nm[1] + ntor_, nm[2]>>] # Zero}
    IN  {[n |-> nm[1], m |-> nm[2], names |-> "RBC,ZBS",
          first |-> C.val[<<nm[1] + ntor_, nm[2]>>],
          second |-> ZS.val[<<nm[1] + ntor_, nm[2]>>]] : nm \in written}
        \cup
        (IF lasym_
         THEN {[n |-> nm[1], m |-> nm[2], names |-> "RBS,ZBC",
                first |-> S.val[<<nm[1] + ntor_, nm[2]>>],
                second |-> ZC.val[<<nm[1] + ntor_, nm[2]>>]] : nm \in written}
         ELSE {})

\* A.transpose()
Transpose(A) == Array([ix \in {<<jx[2], jx[1]>> : jx \in DOMAIN A.val} |-> A.val[<<ix[2], ix[1]>>]])

\* the object and the arguments of a call: self.nfp, self.lasym, self.nphi, the
\* grid Frenet_to_cylindrical returns, ntheta, params, ntorMax
InitVmec ==
    /\ pc = "start"
    /\ ntheta \in GridSizes
    /\ nfp = MaxNfp
    /\ lasym \in BOOLEAN
    /\ \E nph \in GridSizes : \E j0 \in 0 .. ntheta - 1 : \E k0 \in 0 .. nph - 1 :
       \E v \in {<<0, -MaxVal>>, <<MaxVal, 0>>, <<MaxVal, -MaxVal>>} :
       \E nmax \in {0, ntorMaxDefault} :
       \E p \in ParamChoices :
          call = [params |-> p, ntorMax |-> nmax, nphi |-> nph,
                  R |-> ProbeGrid(ntheta, nph, j0, k0, v[1]),
                  Z |-> ProbeGrid(ntheta, nph, j0, k0, v[2])]
    /\ mpol = Unused /\ ntor = Unused
    /\ R_2D = Unused /\ Z_2D = Unused
    /\ RBC = Unused /\ RBS = Unused /\ ZBC = Unused /\ ZBS = Unused
    /\ file = Unused /\ self = Unused
    /\ amp = Unused
    /\ qsc = Unused /\ at = Unused /\ surf = Unused

\* lines 73-116: the mode counts, the surface, its Fourier transform
VmecTransform ==
    /\ pc = "start"
    /\ mpol' = ResolveMpol(call.params, ntheta)
    /\ ntor' = ResolveNtor(call.params, call.nphi)
    /\ R_2D' = Frenet_to_cylindrical.R
    /\ Z_2D' = Frenet_to_cylindrical.Z
    /\ \E F \in {to_Fourier(R_2D', Z_2D', nfp, ntheta, mpol', ntor', lasym)} :
          RBC' = F.RBC /\ RBS' = F.RBS /\ ZBC' = F.ZBC /\ ZBS' = F.ZBS
    /\ pc' = "transformed"
    /\ UNCHANGED <<ntheta, nfp, lasym, amp, vmecvars, plotvars>>

\* lines 119-164: the file
VmecWrite ==
    /\ pc = "transformed"
    /\ file' = [LASYM |-> lasym, NFP |-> nfp, MPOL |-> mpol,
                NTOR |-> Min(ntor, call.ntorMax),
                boundary |-> BoundaryLines(RBC, RBS, ZBC, ZBS, mpol, ntor, lasym)]
    /\ pc' = "written"
    /\ UNCHANGED <<args, RBC, RBS, ZBC, ZBS, amp, call, self, plotvars>>

\* lines 166-173: the spectra kept on the object
VmecStore ==
    /\ pc = "written"
    /\ self' = [RBC |-> Transpose(RBC), ZBS |-> Transpose(ZBS),
                RBS |-> IF lasym THEN Transpose(RBS) ELSE RBS,
                ZBC |-> IF lasym THEN Transpose(ZBC) ELSE ZBC]
    /\ pc' = "done"
    /\ UNCHANGED <<args, RBC, RBS, ZBC, ZBS, amp, call, file, plotvars>>

NextVmec == VmecTransform \/ VmecWrite \/ VmecStore

SpecVmec == InitVmec /\ [][NextVmec]_vars

------------------------------------------------------------------------------
(* Claims about to_vmec *)

Written == pc \in {"written", "done"}

\* C5: the mpol and ntor used for the decomposition and written as MPOL and
\* NTOR never exceed the maximum (100 mode numbers, and ntorMax for NTOR),
\* whether derived or given in params.
C5_AsStated ==
    Written =>
        /\ mpol <= mpol1d /\ file.MPOL <= mpol1d
        /\ ntor <= ntord /\ file.NTOR <= ntord
        /\ file.NTOR <= call.ntorMax

\* the coefficients of mode (n, m), by name
Coefficient(name, n, m) ==
    CASE name = "RBC" -> At(RBC, n, m, ntor)
      [] name = "ZBS" -> At(ZBS, n, m, ntor)
      [] name = "RBS" -> At(RBS, n, m, ntor)
      [] OTHER -> At(ZBC, n, m, ntor)

\* the file holds the coefficient `name` of mode (n, m)
InFile(name, n, m) ==
    \E l \in file.boundary :
        /\ l.n = n /\ l.m = m
        /\ l.names = (IF name \in {"RBC", "ZBS"} THEN "RBC,ZBS" ELSE "RBS,ZBC")

\* C6: a coefficient of a mode (n, m), n in [-ntor,ntor], m in [0,mpol], is
\* written to the file if and only if it is nonzero; with lasym true a mode
\* whose RBS or ZBC is nonzero is written even when its RBC and ZBS are both
\* zero, and no zero coefficient is written.
C6_AsStated ==
    Written =>
        \A nm \in AllModes :
        \A name \in (IF lasym THEN {"RBC", "ZBS", "RBS", "ZBC"} ELSE {"RBC", "ZBS"}) :
            InFile(name, nm[1], nm[2]) <=> Coefficient(name, nm[1], nm[2]) # Zero

\* C10: every boundary line of the file has |n| <= the NTOR and m <= the MPOL
\* written in the same file.
C10_AsStated ==
    Written =>
        \A l \in file.boundary : Abs(l.n) <= file.NTOR /\ l.m <= file.MPOL
------------------------------------------------------------------------------
(* plot: the surface functions rSurf, zSurf and Bf *)

\* number of sample profiles tried for the configuration's arrays
MaxSeed == 2

\* (mutant) phi is handed to the spline as it is
Reduced_Not(ph, nfp_) == ph

\* np.mod(phi, 2*np.pi/self.nfp), phi a fraction <<p, d>> of a turn with nfp | d
Reduced(ph, nfp_) == <<ph[1] % (ph[2] \div nfp_), ph[2]>>

\* spline(self.phi, samples, k=3, s=0) at a node of self.phi: the interpolating
\* spline returns the sample there; beyond the last node it continues the
\* last segment (taken as linear here)
Interpolant(samples, i) ==
    LET last == Cardinality(DOMAIN samples) - 1
    IN  IF i <= last THEN samples[i]
        ELSE IF last = 0 THEN samples[0] + (i - last)
        ELSE samples[last] + (i - last) * (samples[last] - samples[last - 1])

\* sp(np.mod(phi, 2*np.pi/self.nfp)) for phi on a node of self.phi, which has
\* q.nphi nodes i/(q.nphi*q.nfp) turns, i = 0 .. q.nphi - 1
sp(samples, q, ph) ==
    LET red == Reduced(ph, q.nfp)
    IN  QInt(Interpolant(samples, (red[1] * q.nphi * q.nfp) \div red[2]))

tangentR(q, ph) == sp(q.tangentR, q, ph)
tangentZ(q, ph) == sp(q.tangentZ, q, ph)
normalR(q, ph) == sp(q.normalR, q, ph)
normalZ(q, ph) == sp(q.normalZ, q, ph)
binormalR(q, ph) == sp(q.binormalR, q, ph)
binormalZ(q, ph) == sp(q.binormalZ, q, ph)
X1cF(q, ph) == sp(q.X1c, q, ph)
X1sF(q, ph) == sp(q.X1s, q, ph)
Y1cF(q, ph) == sp(q.Y1c, q, ph)
Y1sF(q, ph) == sp(q.Y1s, q, ph)
X20F(q, ph) == sp(q.X20, q, ph)
X2cF(q, ph) == sp(q.X2c, q, ph)
X2sF(q, ph) == sp(q.X2s, q, ph)
Y20F(q, ph) == sp(q.Y20, q, ph)
Y2cF(q, ph) == sp(q.Y2c, q, ph)
Y2sF(q, ph) == sp(q.Y2s, q, ph)
Z20F(q, ph) == sp(q.Z20, q, ph)
Z2cF(q, ph) == sp(q.Z2c, q, ph)
Z2sF(q, ph) == sp(q.Z2s, q, ph)
B20F(q, ph) == sp(q.B20, q, ph)

\* a whole-number factor times an angle, in twelfths of a turn
TwelfthsOf(k, ph) == (12 * k * ph[1]) \div ph[2]

\* sum([self.rc[i]*np.cos(i*self.nfp*phi) for i in range(len(self.rc))])
Raxisf(q, ph) ==
    QSum([i \in 1 .. Len(q.rc) |->
            QMul(QInt(q.rc[i]), Cos12(TwelfthsOf((i - 1) * q.nfp, ph)))], 1 .. Len(q.rc))

\* sum([self.zs[i]*np.sin(i*self.nfp*phi) for i in range(len(self.zs))])
Zaxisf(q, ph) ==
    QSum([i \in 1 .. Len(q.zs) |->
            QMul(QInt(q.zs[i]), Sin12(TwelfthsOf((i - 1) * q.nfp, ph)))], 1 .. Len(q.zs))

\* thetaN = theta-(self.iota-self.iotaN)*phi, in twelfths of a turn
thetaN(q, ph, th) == TwelfthsOf(1, th) - TwelfthsOf(q.iota - q.iotaN, ph)

\* (XcF*cos(k*thetaN) + XsF*sin(k*thetaN)), the harmonic k of a pair of shape functions
Harmonic(c, s_, k, tN) == QAdd(QMul(c, Cos12(k * tN)), QMul(s_, Sin12(k * tN)))

rSurf(q, r, ph, th) ==
    LET tN == thetaN(q, ph, th)
        r0 == Raxisf(q, ph)
        r1 == QAdd(QMul(Harmonic(X1cF(q, ph), X1sF(q, ph), 1, tN), normalR(q, ph)),
                   QMul(Harmonic(Y1cF(q, ph), Y1sF(q, ph), 1, tN), binormalR(q, ph)))
        r2 == IF q.order # "r1"
              THEN QAdd(QAdd(
                     QMul(QAdd(X20F(q, ph), Harmonic(X2cF(q, ph), X2sF(q, ph), 2, tN)),
                          normalR(q, ph)),
                     QMul(QAdd(Y20F(q, ph), Harmonic(Y2cF(q, ph), Y2sF(q, ph), 2, tN)),
                          binormalR(q, ph))),
                     QMul(QAdd(Z20F(q, ph), Harmonic(Z2cF(q, ph), Z2sF(q, ph), 2, tN)),
                          tangentR(q, ph)))
              ELSE Zero
    IN  QAdd(QAdd(r0, QMul(r, r1)), QMul(QMul(r, r), r2))

zSurf(q, r, ph, th) ==
    LET tN == thetaN(q, ph, th)
        z0 == Zaxisf(q, ph)
        z1 == QAdd(QMul(Harmonic(X1cF(q, ph), X1sF(q, ph), 1, tN), normalZ(q, ph)),
                   QMul(Harmonic(Y1cF(q, ph), Y1sF(q, ph), 1, tN), binormalZ(q, ph)))
        z2 == IF q.order # "r1"
              THEN QAdd(QAdd(
                     QMul(QAdd(X20F(q, ph), Harmonic(X2cF(q, ph), X2sF(q, ph), 2, tN)),
                          normalZ(q, ph)),
                     QMul(QAdd(Y20F(q, ph), Harmonic(Y2cF(q, ph), Y2sF(q, ph), 2, tN)),
                          binormalZ(q, ph))),
                     QMul(QAdd(Z20F(q, ph), Harmonic(Z2cF(q, ph), Z2sF(q, ph), 2, tN)),
                          tangentZ(q, ph)))
              ELSE Zero
    IN  QAdd(QAdd(z0, QMul(r, z1)), QMul(QMul(r, r), z2))

\* self.B0*(1+r*self.etabar*np.cos(thetaN)), and for an order above r1
\* + r*r*(B20F(phi)+self.B2c*np.cos(thetaN)+self.B2s*np.sin(thetaN))
Bf(q, r, ph, th) ==
    LET tN == thetaN(q, ph, th)
        b1 == QMul(QInt(q.B0), QAdd(QInt(1), QMul(QMul(r, QInt(q.etabar)), Cos12(tN))))
    IN  IF q.order = "r1" THEN b1
        ELSE QAdd(b1, QMul(QMul(r, r),
                           QAdd(B20F(q, ph), Harmonic(QInt(q.B2c), QInt(q.B2s), 1, tN))))

\* a sample profile: values in -1 .. 1 that vary with the array k, the seed and the node i
Profile(k, seed, i) == ((k * (i + 1) + seed * (i + 2) + i * i) % 3) - 1

\* the frame-induced part of the rotational transform: the periodic frame
\* turns a whole number of times (helicity) per field period, so
\* iotaN = iota + helicity * nfp
iotaN(iota_, helicity, nfp_) == iota_ + helicity * nfp_

\* a configuration on P nodes of phi, its arrays filled from the profiles
Configuration(P, nfp_, helicity, order_, seed, b2) ==
    [nfp |-> nfp_, nphi |-> P, order |-> order_,
     iota |-> seed, iotaN |-> iotaN(seed, helicity, nfp_),
     rc |-> <<MaxVal + 1, seed - 1>>, zs |-> <<0, 1 - seed>>,
     B0 |-> MaxVal, etabar |-> seed + 1, B2c |-> b2[1], B2s |-> b2[2],
     tangentR |-> [i \in 0 .. P - 1 |-> Profile(0, seed, i)],
     tangentZ |-> [i \in 0 .. P - 1 |-> Profile(1, seed, i)],
     normalR |-> [i \in 0 .. P - 1 |-> Profile(2, seed, i)],
     normalZ |-> [i \in 0 .. P - 1 |-> Profile(3, seed, i)],
     binormalR |-> [i \in 0 .. P - 1 |-> Profile(4, seed, i)],
     binormalZ |-> [i \in 0 .. P - 1 |-> Profile(5, seed, i)],
     X1c |-> [i \in 0 .. P - 1 |-> Profile(6, seed, i)],
     X1s |-> [i \in 0 .. P - 1 |-> Profile(7, seed, i)],
     Y1c |-> [i \in 0 .. P - 1 |-> Profile(8, seed, i)],
     Y1s |-> [i \in 0 .. P - 1 |-> Profile(9, seed, i)],
     X20 |-> [i \in 0 .. P - 1 |-> Profile(10, seed, i)],
     X2c |-> [i \in 0 .. P - 1 |-> Profile(11, seed, i)],
     X2s |-> [i \in 0 .. P - 1 |-> Profile(12, seed, i)],
     Y20 |-> [i \in 0 .. P - 1 |-> Profile(13, seed, i)],
     Y2c |-> [i \in 0 .. P - 1 |-> Profile(14, seed, i)],
     Y2s |-> [i \in 0 .. P - 1 |-> Profile(15, seed, i)],
     Z20 |-> [i \in 0 .. P - 1 |-> Profile(16, seed, i)],
     Z2c |-> [i \in 0 .. P - 1 |-> Profile(17, seed, i)],
     Z2s |-> [i \in 0 .. P - 1 |-> Profile(18, seed, i)],
     B20 |-> [i \in 0 .. P - 1 |-> Profile(19, seed, i)]]

\* phi1d[k] = np.linspace(0, 2*np.pi, nphi)[k], theta1d[j] likewise
phi1d(nphi, k) == <<k, nphi - 1>>
theta1d(ntheta_, j) == <<j, ntheta_ - 1>>

\* the number of points of the mesh
MeshSize == call.nphi * call.ntheta

\* plot(self, r, nphi, ntheta): nphi - 1 = self.nphi * self.nfp puts the mesh on
\* the nodes of self.phi, ntheta = 5 puts theta on quarter turns
InitPlot ==
    /\ pc = "start"
    /\ \E P \in GridSizes : \E nfp_ \in Nfps : \E helicity \in -1 .. 1 :
       \E order_ \in {"r1", "r2"} : \E seed \in 0 .. MaxSeed :
       \E b2 \in {<<0, MaxVal>>, <<MaxVal, 0>>, <<MaxVal, -MaxVal>>} :
       \E rr \in {QFrac(1, 2), QInt(MaxVal)} :
          /\ qsc = Configuration(P, nfp_, helicity, order_, seed, b2)
          /\ call = [r |-> rr, nphi |-> P * nfp_ + 1, ntheta |-> 5]
    /\ at = Unused /\ surf = Unused
    /\ ntheta = Unused /\ nfp = Unused /\ mpol = Unused /\ ntor = Unused /\ lasym = Unused
    /\ R_2D = Unused /\ Z_2D = Unused
    /\ RBC = Unused /\ RBS = Unused /\ ZBC = Unused /\ ZBS = Unused
    /\ file = Unused /\ self = Unused /\ amp = Unused

\* lines 155-162: rSurf, zSurf and Bf at the next point of the meshgrid of
\* phi1d and theta1d
PlotPoint ==
    /\ pc \in {"start", "mesh"}
    /\ \E i \in {IF pc = "start" THEN 0 ELSE at.i + 1} :
          /\ i < MeshSize
          /\ at' = [i |-> i, phi |-> phi1d(call.nphi, i % call.nphi),
                    theta |-> theta1d(call.ntheta, i \div call.nphi)]
    /\ surf' = [R |-> rSurf(qsc, call.r, at'.phi, at'.theta),
                Z |-> zSurf(qsc, call.r, at'.phi, at'.theta),
                B |-> Bf(qsc, call.r, at'.phi, at'.theta)]
    /\ pc' = "mesh"
    /\ UNCHANGED <<args, RBC, RBS, ZBC, ZBS, amp, call, file, self, qsc>>

\* lines 163-178: the figure is drawn from the mesh values
PlotShow ==
    /\ pc = "mesh" /\ at.i = MeshSize - 1
    /\ pc' = "done"
    /\ UNCHANGED <<args, RBC, RBS, ZBC, ZBS, amp, vmecvars, plotvars>>

NextPlot == PlotPoint \/ PlotShow

SpecPlot == InitPlot /\ [][NextPlot]_vars

------------------------------------------------------------------------------
(* Claims about the surface functions *)

\* phi + 2*pi/nfp
NextPeriod(ph, nfp_) == <<ph[1] + ph[2] \div nfp_, ph[2]>>

BfClaimed(q, r, ph, th) ==
    LET tN == thetaN(q, ph, th)
        b1 == QMul(QInt(q.B0), QAdd(QInt(1), QMul(QMul(r, QInt(q.etabar)), Cos12(tN))))
    IN  IF q.order = "r1" THEN b1
        ELSE QAdd(b1, QMul(QMul(r, r),
                           QAdd(B20F(q, ph), Harmonic(QInt(q.B2c), QInt(q.B2s), 2, tN))))

\* C8: Bf = B0*(1 + r*etabar*cos(thetaN)) at order r1, and adds
\* r^2*(B20(phi) + B2c*cos(2*thetaN) + B2s*sin(2*thetaN)) at a higher order.
C8_AsStated ==
    pc = "mesh" => surf.B = BfClaimed(qsc, call.r, at.phi, at.theta)
====
